---- MODULE Spec2Model ----
(***************************************************************************)
(* A model of jill/source.py: the mirror registry (ReleaseSource,          *)
(* SourceRegistry), the lazily populated latency caches, the ranking of    *)
(* candidate URLs, and the availability resolver (is_url_available,        *)
(* query_download_url).                                                    *)
(*                                                                         *)
(* The program is sequential: one call runs at a time.  The registry       *)
(* operations (get_url, get_urls, the two latencies properties) are one    *)
(* action each; query_download_url is a process whose steps are the call   *)
(* of get_urls, each iteration of its for loop and each HEAD request of    *)
(* is_url_available.                                                       *)
(***************************************************************************)
EXTENDS Integers, Sequences, FiniteSets, TLC

(***************************************************************************)
(* Bounds of the model.                                                    *)
(***************************************************************************)
\* the largest max_try a caller passes (the code's default is 3)
MaxTry == 2
\* latencies port_response_time reports are 1..MaxLatency, or Infinity
MaxLatency == 2
\* the depth of nested is_url_available calls at which the interpreter
\* raises RecursionError (the interpreter's limit, scaled down)
MaxDepth == 2

(***************************************************************************)
(* URLs and templates.  A URL is a record of its scheme, its network       *)
(* location and its path; the last two are sequences of pieces of text.    *)
(* A template is a URL some of whose pieces are placeholders ($name).      *)
(***************************************************************************)
Placeholders == {"$version", "$system", "$arch", "$nokey"}

\* Template(x): the template is kept as written
Template(scheme, netloc, path) ==
    [scheme |-> scheme, netloc |-> netloc, path |-> path]

\* urlparse(url).netloc
Netloc(url) == url.netloc

\* urlparse(url).scheme
Scheme(url) == url.scheme

\* generate_info(plain_version, system, architecture): the substitutions
\* the provider supplies; it supplies no value for $nokey
generate_info(plain_version, system, architecture) ==
    [p \in {"$version", "$system", "$arch"} |->
        CASE p = "$version" -> plain_version
          [] p = "$system"  -> system
          [] p = "$arch"    -> architecture]

PiecesOf(t) == {t.netloc[i] : i \in DOMAIN t.netloc} \cup
               {t.path[i] : i \in DOMAIN t.path}

\* t.substitute(**configs) raises KeyError when a placeholder has no value
SubstituteRaises(t, configs) ==
    \E p \in PiecesOf(t) : p \in Placeholders /\ p \notin DOMAIN configs

SubstitutePiece(p, configs) ==
    IF p \in Placeholders THEN configs[p] ELSE p

\* t.substitute(**configs): every placeholder replaced by its value
Substitute(t, configs) ==
    [scheme |-> t.scheme,
     netloc |-> [i \in DOMAIN t.netloc |-> SubstitutePiece(t.netloc[i], configs)],
     path   |-> [i \in DOMAIN t.path |-> SubstitutePiece(t.path[i], configs)]]

(***************************************************************************)
(* The configured mirrors.                                                 *)
(***************************************************************************)
StablePath == <<"/julia-", "$version", "-", "$system", "-", "$arch">>
NightlyPath == <<"/julia-latest-", "$system", "-", "$arch">>
BadPath == <<"/julia-", "$version", ".", "$nokey">>

Stable(host) == Template("https", <<host>>, StablePath)
Nightly(host) == Template("https", <<host>>, NightlyPath)

\* ReleaseSource.__init__
ReleaseSource(name, urls, latest_urls) ==
    [name |-> name, urls |-> urls, latest_urls |-> latest_urls]

SrcA == ReleaseSource("A", <<Stable("a1.org"), Stable("a2.org")>>,
                           <<Nightly("an.org")>>)
SrcB == ReleaseSource("B", <<Stable("b.org")>>, <<Nightly("b.org")>>)
SrcC == ReleaseSource("C", <<Stable("c.org")>>, <<Nightly("cn.org")>>)
\* a mirror that shares a host with mirror B
SrcShared == ReleaseSource("S", <<Stable("b.org")>>, <<Nightly("c.org")>>)
\* a mirror whose stable template names a placeholder that has no value
SrcBad == ReleaseSource("X", <<Template("https", <<"b.org">>, BadPath)>>,
                             <<Nightly("b.org")>>)
\* a mirror that serves no nightly releases
SrcNoLatest == ReleaseSource("N", <<Stable("c.org")>>, <<>>)
\* a mirror with a placeholder in the host part of its stable template
SrcHostVar == ReleaseSource("H",
                  <<Template("https", <<"$system", ".d.org">>, StablePath)>>,
                  <<Nightly("c.org")>>)

\* SourceRegistry.__init__: the mirrors of the configuration file, in the
\* order of the file
Registries ==
    { <<>>,
      <<SrcB>>,
      <<SrcA, SrcB, SrcC>>,
      <<SrcB, SrcShared>>,
      <<SrcC, SrcBad>>,
      <<SrcB, SrcNoLatest>>,
      <<SrcB, SrcHostVar>> }

Versions == {"1.0", "latest"}
Requests == [version : Versions, system : {"linux"}, arch : {"x86_64"}]

(***************************************************************************)
(* The network primitives of net_utils.                                    *)
(***************************************************************************)
\* query_ip(host): several hosts may have one address
query_ip(host) ==
    CASE host = <<"a1.org">> -> "10.0.0.1"
      [] host = <<"a2.org">> -> "10.0.0.2"
      [] host = <<"an.org">> -> "10.0.0.2"
      [] host = <<"b.org">>  -> "10.0.0.3"
      [] host = <<"c.org">>  -> "10.0.0.4"
      [] host = <<"cn.org">> -> "10.0.0.4"
      [] OTHER               -> "10.0.0.5"

\* default_scheme_ports
default_scheme_ports(scheme) == IF scheme = "http" THEN 80 ELSE 443

\* the value port_response_time reports for a failed probe: larger than
\* every measured latency
Infinity == MaxLatency + 1

\* the values port_response_time can report
Latencies == (1..MaxLatency) \cup {Infinity}

(***************************************************************************)
(* Dictionaries are functions; list(dict) is the set of its keys.          *)
(***************************************************************************)
EmptyDict == [k \in {} |-> 0]

\* d.update(e): the entries of e replace those of d
DictUpdate(d, e) ==
    [k \in DOMAIN d \cup DOMAIN e |-> IF k \in DOMAIN e THEN e[k] ELSE d[k]]

\* the value query_download_url returns when no mirror works (None), and
\* the value of a URL variable that holds nothing
NoUrl == [scheme |-> "", netloc |-> <<>>, path |-> <<>>]

(***************************************************************************)
(* ReleaseSource                                                           *)
(***************************************************************************)
\* a population that looks at the stable templates only
StableTemplatesOnly(src) == src.urls

\* url_list of latencies: self.urls extended by self.latest_urls
AllTemplates(src) == src.urls \o src.latest_urls

\* host_list of latencies, as a set
HostSet(src) == {Netloc(AllTemplates(src)[i]) : i \in DOMAIN AllTemplates(src)}

\* host_ip_records of latencies
host_ip_records(src) == [h \in HostSet(src) |-> query_ip(h)]

\* ip_port_records of latencies: one entry for each distinct address, the
\* port of the last URL of that address
ip_port_records(src) ==
    LET url_list == AllTemplates(src)
        ips == {query_ip(h) : h \in HostSet(src)}
        LastOf(ip) == CHOOSE i \in DOMAIN url_list :
                         /\ query_ip(Netloc(url_list[i])) = ip
                         /\ \A j \in DOMAIN url_list :
                               query_ip(Netloc(url_list[j])) = ip => j <= i
    IN  [ip \in ips |-> default_scheme_ports(Scheme(url_list[LastOf(ip)]))]

\* the measurements one population of src's cache can obtain: what
\* port_response_time reports for each address it is called with
Measurements(src) == [DOMAIN ip_port_records(src) -> Latencies]

\* a property that measures at every read
NeedsPopulationAlways(cache) == TRUE

\* "if not self._latencies": an empty dictionary is to be populated
NeedsPopulation(cache) == cache = EmptyDict

\* the measurements that matter for a call that finds the cache as it is:
\* a populated cache is not measured again
MeasurementsFor(src, cache) ==
    IF NeedsPopulation(cache) THEN Measurements(src) ELSE {EmptyDict}

\* a population that gives every host the latency of one address
PopulateOneAddress(src, meas) ==
    [h \in HostSet(src) |-> meas[CHOOSE ip \in DOMAIN meas : TRUE]]

\* the body of "if not self._latencies": the new value of self._latencies
Populate(src, meas) ==
    LET latency_records == [ip \in DOMAIN ip_port_records(src) |-> meas[ip]]
    IN  [h \in HostSet(src) |-> latency_records[host_ip_records(src)[h]]]

\* ReleaseSource.latencies: self._latencies after the property was read
\* (the property returns that same dictionary)
ReleaseSource_latencies(src, cache, meas) ==
    IF NeedsPopulation(cache) THEN Populate(src, meas) ELSE cache

\* what has been done to measure the latencies of a mirror: the number of
\* runs of the body of "if not self._latencies", the number of calls of
\* port_response_time, and what the last call for each address reported
NoPopulation == [runs |-> 0, probes |-> 0, measured |-> EmptyDict]

\* the same after one read of the property that found the cache as it is
PopulationAfter(src, cache, meas, before) ==
    IF NeedsPopulation(cache)
    THEN [runs     |-> before.runs + 1,
          probes   |-> before.probes + Cardinality(DOMAIN ip_port_records(src)),
          measured |-> DictUpdate(before.measured,
                          [ip \in DOMAIN ip_port_records(src) |-> meas[ip]])]
    ELSE before

\* an insertion that sorts by descending latency
InsertByLatencyDescending(url, s, d) ==
    LET p == Cardinality({j \in DOMAIN s : d[Netloc(s[j])] >= d[Netloc(url)]})
    IN  SubSeq(s, 1, p) \o <<url>> \o SubSeq(s, p + 1, Len(s))

\* an insertion that puts url before the elements of equal key
InsertByLatencyBeforeEquals(url, s, d) ==
    LET p == Cardinality({j \in DOMAIN s : d[Netloc(s[j])] < d[Netloc(url)]})
    IN  SubSeq(s, 1, p) \o <<url>> \o SubSeq(s, p + 1, Len(s))

\* url goes into the sorted list s behind every element whose key is not
\* larger than its own (list.sort is stable)
InsertByLatency(url, s, d) ==
    LET p == Cardinality({j \in DOMAIN s : d[Netloc(s[j])] <= d[Netloc(url)]})
    IN  SubSeq(s, 1, p) \o <<url>> \o SubSeq(s, p + 1, Len(s))

\* the first n elements of url_list, sorted (the elements are bound with
\* \in so that each sorted prefix is computed once)
RECURSIVE SortPrefix(_, _, _)
SortPrefix(url_list, d, n) ==
    IF n = 0 THEN <<>>
    ELSE CHOOSE r \in {InsertByLatency(url_list[n], s, d) :
                          s \in {SortPrefix(url_list, d, n - 1)}} : TRUE

\* url_list.sort(key=lambda url: latencies[urlparse(url).netloc])
SortByLatency(url_list, d) == SortPrefix(url_list, d, Len(url_list))

\* a get_url that ranks the templates of both lists
SelectTemplatesAll(src, plain_version) == src.urls \o src.latest_urls

\* the template list get_url selects
SelectTemplates(src, plain_version) ==
    IF plain_version = "latest" THEN src.latest_urls ELSE src.urls

\* the outcomes of get_url (read: the call has read self.latencies)
Returned(url, cache) ==
    [raised |-> FALSE, exc |-> "", url |-> url, cache |-> cache, read |-> TRUE]
Raised(exc, cache, read) ==
    [raised |-> TRUE, exc |-> exc, url |-> NoUrl, cache |-> cache, read |-> read]

\* ReleaseSource.get_url: what the call returns or raises, and
\* self._latencies after it
get_url(src, cache, req, meas) ==
    LET template_lists == SelectTemplates(src, req.version)
        configs == generate_info(req.version, req.system, req.arch)
    IN  IF \E i \in DOMAIN template_lists :
               SubstituteRaises(template_lists[i], configs)
        THEN Raised("KeyError: placeholder", cache, FALSE)
        ELSE LET url_list == [i \in DOMAIN template_lists |->
                                 Substitute(template_lists[i], configs)]
             IN  IF url_list = <<>>
                 THEN \* sort calls no key; url_list[0] fails
                      Raised("IndexError", cache, FALSE)
                 ELSE LET latencies == ReleaseSource_latencies(src, cache, meas)
                      IN  IF \E i \in DOMAIN url_list :
                                 Netloc(url_list[i]) \notin DOMAIN latencies
                          THEN Raised("KeyError: host", latencies, TRUE)
                          ELSE Returned(SortByLatency(url_list, latencies)[1],
                                        latencies)

(***************************************************************************)
(* SourceRegistry                                                          *)
(***************************************************************************)
\* one measurement for every mirror of the registry
RECURSIVE MeasurementSeqs(_, _, _)
MeasurementSeqs(reg, caches, n) ==
    IF n = 0 THEN {<<>>}
    ELSE {Append(s, m) : s \in MeasurementSeqs(reg, caches, n - 1),
                         m \in MeasurementsFor(reg[n], caches[n])}

RegistryMeasurements(reg, caches) == MeasurementSeqs(reg, caches, Len(reg))

\* records of SourceRegistry.latencies after the first n mirrors
RECURSIVE MergeRecords(_, _)
MergeRecords(caches, n) ==
    IF n = 0 THEN EmptyDict
    ELSE DictUpdate(MergeRecords(caches, n - 1), caches[n])

\* SourceRegistry.latencies: reading src.latencies populates every cache
\* that is still empty; the records of the mirrors are merged in order
SourceRegistry_latencies(reg, caches, meas) ==
    LET after == [i \in DOMAIN reg |->
                     ReleaseSource_latencies(reg[i], caches[i], meas[i])]
    IN  [caches |-> after, records |-> MergeRecords(after, Len(reg))]

\* what has been done to measure latencies after the mirrors in readers
\* have read their property latencies once
RegistryPopulations(reg, caches, meas, pops, readers) ==
    [i \in DOMAIN reg |->
        IF i \in readers
        THEN PopulationAfter(reg[i], caches[i], meas[i], pops[i])
        ELSE pops[i]]

\* the list comprehension of get_urls from mirror i on: it ends at the
\* first get_url that raises (touched: the mirrors whose get_url ran;
\* served: those whose get_url returned a URL; read: those whose get_url
\* read self.latencies)
RECURSIVE CollectUrls(_, _, _, _, _, _)
CollectUrls(reg, caches, req, meas, i, acc) ==
    IF i > Len(reg)
    THEN [raised |-> FALSE, exc |-> "", urls |-> acc, caches |-> caches,
          touched |-> DOMAIN reg, served |-> DOMAIN reg, read |-> DOMAIN reg,
          ranked |-> FALSE]
    ELSE CHOOSE c \in
           { IF o.raised
             THEN [raised |-> TRUE, exc |-> o.exc, urls |-> <<>>,
                   caches |-> [caches EXCEPT ![i] = o.cache],
                   touched |-> 1..i, served |-> 1..(i - 1),
                   read |-> IF o.read THEN 1..i ELSE 1..(i - 1),
                   ranked |-> FALSE]
             ELSE CollectUrls(reg, [caches EXCEPT ![i] = o.cache], req, meas,
                              i + 1, Append(acc, o.url)) :
             o \in {get_url(reg[i], caches[i], req, meas[i])} } : TRUE

\* a get_urls that leaves the list in the order of the mirrors
RankUrlsUnsorted(url_list, records) == url_list

\* the sort of get_urls, by the merged latencies of the registry
RankUrls(url_list, records) == SortByLatency(url_list, records)

\* the sort of get_urls on the collected list c.urls; its key reads
\* self.latencies (ranked: the key was called)
RankAll(reg, c, meas) ==
    CHOOSE r \in
      { IF \E i \in DOMAIN c.urls : Netloc(c.urls[i]) \notin DOMAIN l.records
        THEN [raised |-> TRUE, exc |-> "KeyError: host", urls |-> <<>>,
              caches |-> l.caches, touched |-> c.touched,
              served |-> c.served, read |-> c.read, ranked |-> TRUE]
        ELSE [raised |-> FALSE, exc |-> "",
              urls |-> RankUrls(c.urls, l.records), caches |-> l.caches,
              touched |-> c.touched, served |-> c.served, read |-> c.read,
              ranked |-> TRUE] :
        l \in {SourceRegistry_latencies(reg, c.caches, meas)} } : TRUE

\* SourceRegistry.get_urls: what the call returns or raises, and the
\* caches after it (an empty list is sorted without a call of the key)
get_urls(reg, caches, req, meas) ==
    CHOOSE r \in
      { IF c.raised \/ c.urls = <<>> THEN c ELSE RankAll(reg, c, meas) :
        c \in {CollectUrls(reg, caches, req, meas, 1, <<>>)} } : TRUE

\* what has been done to measure latencies after a get_urls with the
\* outcome o: the get_url of the mirrors in o.read has read the property,
\* and the key of the sort, when it was called, has read it for every mirror
PopulationsOfGetUrls(reg, caches, meas, pops, o) ==
    LET first == RegistryPopulations(reg, caches, meas, pops, o.read)
        collected == [i \in DOMAIN reg |->
                         IF i \in o.read
                         THEN ReleaseSource_latencies(reg[i], caches[i], meas[i])
                         ELSE caches[i]]
    IN  IF o.ranked
        THEN RegistryPopulations(reg, collected, meas, first, DOMAIN reg)
        ELSE first

(***************************************************************************)
(* is_url_available and query_download_url                                 *)
(***************************************************************************)
\* where a redirect may lead
Cdn1 == [scheme |-> "https", netloc |-> <<"cdn1.net">>, path |-> <<"/file">>]
Cdn2 == [scheme |-> "https", netloc |-> <<"cdn2.net">>, path |-> <<"/file">>]
RedirectTargets == {Cdn1, Cdn2}

RedirectStatuses == {301, 302, 307}
OtherStatuses == {200, 404, 500}

\* what requests.head(url, timeout) can do: raise a RequestException, or
\* return a response with a status and, perhaps, a Location header
\* (location = NoUrl: the header is absent)
Responses ==
    {[kind |-> "RequestException", status_code |-> 0, location |-> NoUrl]}
    \cup [kind : {"response"}, status_code : OtherStatuses, location : {NoUrl}]
    \cup [kind : {"response"}, status_code : RedirectStatuses,
          location : {NoUrl} \cup RedirectTargets]

\* is_url_available after requests.head: "False" and "True" are returned,
\* "recurse" is the nested call on the Location, "KeyError" is raised by
\* r.headers['Location']
HeadOutcome(r) ==
    IF r.kind = "RequestException" THEN "False"
    ELSE IF r.status_code \div 100 = 4 THEN "False"
    ELSE IF r.status_code = 301 \/ r.status_code = 302
         THEN IF r.location = NoUrl THEN "KeyError" ELSE "recurse"
    ELSE "True"

\* a repeat that goes through the list once more
RepeatOneMore(url_list, times) == [k \in 1..(times + 1) |-> url_list]

\* a repeat that stops one pass early
RepeatOneLess(url_list, times) == [k \in 1..(times - 1) |-> url_list]

\* repeat(url_list, max_try): the list, max_try times (none when
\* max_try <= 0)
Repeat(url_list, times) == [k \in 1..times |-> url_list]

\* the first n lists of chain.from_iterable(lists)
RECURSIVE ChainPrefix(_, _)
ChainPrefix(lists, n) ==
    IF n = 0 THEN <<>> ELSE ChainPrefix(lists, n - 1) \o lists[n]

\* chain.from_iterable(lists)
ChainFromIterable(lists) == ChainPrefix(lists, Len(lists))

\* an iterator that retries each URL max_try times before the next one
ProbeOrderRetryEach(url_list, times) ==
    [k \in 1..(times * Len(url_list)) |-> url_list[((k - 1) \div times) + 1]]

\* the iterator the for loop of query_download_url walks
ProbeOrder(url_list, times) == ChainFromIterable(Repeat(url_list, times))

\* a loop that goes on after a successful probe
LoopBodyNoReturn(available) == "continue"

\* the body of the for loop: what it does with is_url_available's value
LoopBody(available) == IF available THEN "return" ELSE "continue"

\* a resolver that returns the URL its last HEAD request went to
ReturnUrlFollowed(candidate, final) == final

\* the value "return url" hands back: the loop variable (candidate), not
\* the URL the last HEAD request went to (final)
ReturnUrl(candidate, final) == candidate

(***************************************************************************)
(* The state.                                                              *)
(***************************************************************************)
VARIABLES
    registry,   \* default_registry.registry: the mirrors, in order
    lat,        \* lat[i]: self._latencies of mirror i
    pop,        \* pop[i]: what has been done to measure mirror i's latencies
    thread,     \* thread[t]: where thread t is in the property latencies
    touched,    \* the mirrors whose get_url has been called
    served,     \* the mirrors whose get_url has returned a URL
    call,       \* the last call of a registry operation and its outcome
    pc,         \* where query_download_url is
    max_try,    \* its argument max_try
    url_list,   \* the list get_urls returned to it
    log,        \* its calls of is_url_available: the URL and the outcome
    cur,        \* the URL of the running HEAD request
    resp,       \* what the last HEAD request of the running probe gave
    depth,      \* the number of nested is_url_available calls
    result,     \* the value query_download_url returned
    exc         \* the exception that left query_download_url

vars == <<registry, lat, pop, thread, touched, served, call, pc, max_try,
          url_list, log, cur, resp, depth, result, exc>>

resolver == <<pc, max_try, url_list, log, cur, resp, depth, result, exc>>

\* no HEAD request was made yet
NoResponse == [kind |-> "none", status_code |-> 0, location |-> NoUrl]

AnyRequest == [version |-> "1.0", system |-> "linux", arch |-> "x86_64"]

NoCall == [op |-> "none", mirror |-> 0, req |-> AnyRequest, raised |-> FALSE,
           exc |-> "", urls |-> <<>>, records |-> EmptyDict]

\* the threads of the concurrent readers of the property latencies
Threads == {1, 2}

\* a thread that is not inside the property
IdleThread == [pc |-> "out", mirror |-> 0, records |-> EmptyDict]

Init ==
    /\ registry \in Registries
    /\ lat = [i \in DOMAIN registry |-> EmptyDict]
    /\ pop = [i \in DOMAIN registry |-> NoPopulation]
    /\ thread = [t \in Threads |-> IdleThread]
    /\ touched = {}
    /\ served = {}
    /\ call = NoCall
    /\ pc = "idle"
    /\ max_try = 0
    /\ url_list = <<>>
    /\ log = <<>>
    /\ cur = NoUrl
    /\ resp = NoResponse
    /\ depth = 0
    /\ result = NoUrl
    /\ exc = ""

(***************************************************************************)
(* Calls of the registry's operations.                                     *)
(***************************************************************************)
\* registry[i].get_url(version, system, arch)
GetUrl(i, rq) ==
    /\ pc = "idle"
    /\ \E meas \in MeasurementsFor(registry[i], lat[i]) :
          \E o \in {get_url(registry[i], lat[i], rq, meas)} :
              /\ lat' = [lat EXCEPT ![i] = o.cache]
              /\ pop' = IF o.read
                        THEN [pop EXCEPT ![i] = PopulationAfter(registry[i],
                                                   lat[i], meas, pop[i])]
                        ELSE pop
              /\ call' = [op |-> "get_url", mirror |-> i, req |-> rq,
                          raised |-> o.raised, exc |-> o.exc,
                          urls |-> IF o.raised THEN <<>> ELSE <<o.url>>,
                          records |-> EmptyDict]
              /\ served' = IF o.raised THEN served ELSE served \cup {i}
    /\ touched' = touched \cup {i}
    /\ UNCHANGED <<registry, thread, resolver>>

\* registry[i].latencies
MirrorLatencies(i) ==
    /\ pc = "idle"
    /\ \E meas \in MeasurementsFor(registry[i], lat[i]) :
          \E d \in {ReleaseSource_latencies(registry[i], lat[i], meas)} :
              /\ lat' = [lat EXCEPT ![i] = d]
              /\ pop' = [pop EXCEPT ![i] = PopulationAfter(registry[i], lat[i],
                                                           meas, pop[i])]
              /\ call' = [NoCall EXCEPT !.op = "latencies", !.mirror = i,
                                        !.records = d]
    /\ UNCHANGED <<registry, thread, touched, served, resolver>>

\* default_registry.latencies
RegistryLatencies ==
    /\ pc = "idle"
    /\ \E meas \in RegistryMeasurements(registry, lat) :
          \E l \in {SourceRegistry_latencies(registry, lat, meas)} :
              /\ lat' = l.caches
              /\ pop' = RegistryPopulations(registry, lat, meas, pop,
                                            DOMAIN registry)
              /\ call' = [NoCall EXCEPT !.op = "registry.latencies",
                                        !.records = l.records]
    /\ UNCHANGED <<registry, thread, touched, served, resolver>>

\* default_registry.get_urls(version, system, arch)
GetUrls(rq) ==
    /\ pc = "idle"
    /\ \E meas \in RegistryMeasurements(registry, lat) :
          \E o \in {get_urls(registry, lat, rq, meas)} :
              /\ lat' = o.caches
              /\ pop' = PopulationsOfGetUrls(registry, lat, meas, pop, o)
              /\ touched' = touched \cup o.touched
              /\ served' = served \cup o.served
              /\ call' = [op |-> "get_urls", mirror |-> 0, req |-> rq,
                          raised |-> o.raised, exc |-> o.exc,
                          urls |-> o.urls, records |-> EmptyDict]
    /\ UNCHANGED <<registry, thread, resolver>>

(***************************************************************************)
(* query_download_url(version, system, arch, max_try, timeout)             *)
(***************************************************************************)
\* the call, up to the end of get_urls
Resolve(rq) ==
    /\ pc = "idle"
    /\ \E meas \in RegistryMeasurements(registry, lat) :
          \E o \in {get_urls(registry, lat, rq, meas)} :
              /\ lat' = o.caches
              /\ pop' = PopulationsOfGetUrls(registry, lat, meas, pop, o)
              /\ touched' = touched \cup o.touched
              /\ served' = served \cup o.served
              /\ call' = [op |-> "resolve", mirror |-> 0, req |-> rq,
                          raised |-> o.raised, exc |-> o.exc,
                          urls |-> o.urls, records |-> EmptyDict]
              /\ pc' = IF o.raised THEN "raised" ELSE "loop"
              /\ exc' = o.exc
              /\ url_list' = o.urls
    /\ max_try' \in 0..MaxTry
    /\ log' = <<>>
    /\ cur' = NoUrl
    /\ resp' = NoResponse
    /\ depth' = 0
    /\ result' = NoUrl
    /\ UNCHANGED <<registry, thread>>

\* "for url in url_list": the next URL of the iterator is handed to
\* is_url_available, or the iterator is exhausted and None is returned
NextUrl ==
    /\ pc = "loop"
    /\ \E order \in {ProbeOrder(url_list, max_try)} :
           IF Len(log) < Len(order)
           THEN /\ cur' = order[Len(log) + 1]
                /\ log' = Append(log, [url |-> order[Len(log) + 1],
                                       outcome |-> "pending"])
                /\ pc' = "head"
                /\ UNCHANGED result
           ELSE /\ pc' = "done"
                /\ result' = NoUrl
                /\ UNCHANGED <<cur, log>>
    /\ depth' = 0
    /\ resp' = NoResponse
    /\ UNCHANGED <<registry, lat, pop, thread, touched, served, call, max_try,
                   url_list, exc>>

SetOutcome(o) == [log EXCEPT ![Len(log)].outcome = o]

\* one requests.head of is_url_available and what follows it
HeadRequest ==
    /\ pc = "head"
    /\ \E r \in Responses :
          LET o == HeadOutcome(r)
              candidate == log[Len(log)].url
          IN  /\ resp' = r
              /\ CASE o = "recurse" ->
                        IF depth + 1 > MaxDepth
                        THEN /\ pc' = "raised"
                             /\ exc' = "RecursionError"
                             /\ log' = SetOutcome("raised")
                             /\ UNCHANGED <<cur, depth, result>>
                        ELSE /\ cur' = r.location
                             /\ depth' = depth + 1
                             /\ UNCHANGED <<pc, exc, log, result>>
                   [] o = "KeyError" ->
                        /\ pc' = "raised"
                        /\ exc' = "KeyError: Location"
                        /\ log' = SetOutcome("raised")
                        /\ UNCHANGED <<cur, depth, result>>
                   [] o \in {"True", "False"} ->
                        /\ log' = SetOutcome(IF o = "True" THEN "Available"
                                                           ELSE "Unavailable")
                        /\ IF LoopBody(o = "True") = "return"
                           THEN /\ pc' = "done"
                                /\ result' = ReturnUrl(candidate, cur)
                           ELSE /\ pc' = "loop"
                                /\ UNCHANGED result
                        /\ UNCHANGED <<cur, depth, exc>>
    /\ UNCHANGED <<registry, lat, pop, thread, touched, served, call, max_try,
                   url_list>>

\* the caller goes on after query_download_url returned or raised
Finish ==
    /\ pc \in {"done", "raised"}
    /\ pc' = "idle"
    /\ max_try' = 0
    /\ url_list' = <<>>
    /\ log' = <<>>
    /\ cur' = NoUrl
    /\ resp' = NoResponse
    /\ depth' = 0
    /\ result' = NoUrl
    /\ exc' = ""
    /\ call' = NoCall
    /\ UNCHANGED <<registry, lat, pop, thread, touched, served>>

Next ==
    \/ \E i \in DOMAIN registry, rq \in Requests : GetUrl(i, rq)
    \/ \E i \in DOMAIN registry : MirrorLatencies(i)
    \/ RegistryLatencies
    \/ \E rq \in Requests : GetUrls(rq)
    \/ \E rq \in Requests : Resolve(rq)
    \/ NextUrl
    \/ HeadRequest
    \/ Finish

Spec == Init /\ [][Next]_vars

(***************************************************************************)
(* Threads that read the property latencies of the mirrors of the shared   *)
(* default_registry at the same time.  The property takes no lock: a       *)
(* thread may be switched out after any of its statements.                 *)
(***************************************************************************)
\* thread t enters the property of mirror i and evaluates
\* "if not self._latencies"
LatenciesCheck(t, i) ==
    /\ thread[t].pc = "out"
    /\ thread' = [thread EXCEPT ![t] =
                     [pc |-> IF NeedsPopulation(lat[i]) THEN "probe"
                                                        ELSE "return",
                      mirror |-> i, records |-> EmptyDict]]
    /\ UNCHANGED <<registry, lat, pop, touched, served, call, resolver>>

\* thread t resolves the hosts and calls port_response_time for every
\* address; the dictionary it is about to assign is in its locals
LatenciesProbe(t) ==
    /\ thread[t].pc = "probe"
    /\ \E meas \in Measurements(registry[thread[t].mirror]) :
          /\ thread' = [thread EXCEPT ![t].pc = "assign",
                            ![t].records = Populate(registry[thread[t].mirror],
                                                    meas)]
          /\ pop' = [pop EXCEPT ![thread[t].mirror].probes =
                                    @ + Cardinality(DOMAIN meas),
                                ![thread[t].mirror].measured =
                                    DictUpdate(@, meas)]
    /\ UNCHANGED <<registry, lat, touched, served, call, resolver>>

\* thread t assigns self._latencies: a run of the body is complete
LatenciesAssign(t) ==
    /\ thread[t].pc = "assign"
    /\ lat' = [lat EXCEPT ![thread[t].mirror] = thread[t].records]
    /\ pop' = [pop EXCEPT ![thread[t].mirror].runs = @ + 1]
    /\ thread' = [thread EXCEPT ![t].pc = "return"]
    /\ UNCHANGED <<registry, touched, served, call, resolver>>

\* thread t returns self._latencies
LatenciesReturn(t) ==
    /\ thread[t].pc = "return"
    /\ thread' = [thread EXCEPT ![t] = IdleThread]
    /\ UNCHANGED <<registry, lat, pop, touched, served, call, resolver>>

NextConcurrent ==
    \/ \E t \in Threads, i \in DOMAIN registry : LatenciesCheck(t, i)
    \/ \E t \in Threads : LatenciesProbe(t)
    \/ \E t \in Threads : LatenciesAssign(t)
    \/ \E t \in Threads : LatenciesReturn(t)

\* the registries of at most two mirrors are enough for two threads
InitConcurrent == Init /\ Len(registry) <= 2

SpecConcurrent == InitConcurrent /\ [][NextConcurrent]_vars

(***************************************************************************)
(* Vocabulary of the properties.                                           *)
(***************************************************************************)
\* the registry's merged latencies as the caches stand
GlobalLatency == MergeRecords(lat, Len(registry))

\* query_download_url has got its candidate list
Probing == pc \in {"loop", "head", "done"} \/ (pc = "raised" /\ log # <<>>)

Candidates == {url_list[i] : i \in DOMAIN url_list}

ProbedAs(u, outcome) ==
    \E k \in DOMAIN log : log[k].url = u /\ log[k].outcome = outcome

\* no candidate was found both Available and Unavailable
StableAvailability ==
    \A j, k \in DOMAIN log :
        (/\ log[j].url = log[k].url
         /\ log[j].outcome \in {"Available", "Unavailable"}
         /\ log[k].outcome \in {"Available", "Unavailable"})
        => log[j].outcome = log[k].outcome

\* the hosts of the templates of mirror i, stable and latest
TemplateHosts(i) ==
    {registry[i].urls[k].netloc : k \in DOMAIN registry[i].urls} \cup
    {registry[i].latest_urls[k].netloc : k \in DOMAIN registry[i].latest_urls}

\* a template of the set mirror i selects for the request names a
\* placeholder that generate_info does not supply
TemplateError(i, rq) ==
    LET ts == IF rq.version = "latest" THEN registry[i].latest_urls
                                        ELSE registry[i].urls
    IN  \E k \in DOMAIN ts : \E p \in PiecesOf(ts[k]) :
           p \in Placeholders /\ p \notin {"$version", "$system", "$arch"}

(***************************************************************************)
(* C1. query_download_url short-circuits: an Available outcome is the last *)
(* probe of the call, in this pass and in every later one, and its         *)
(* candidate is returned at once.                                          *)
(***************************************************************************)
C1_ShortCircuit ==
    \A k \in DOMAIN log :
        log[k].outcome = "Available" =>
            /\ k = Len(log)
            /\ pc = "done"
            /\ result = log[k].url

\* mirror ranked first unavailable, mirror ranked second available: one
\* probe each, passes left over
C1_Witness ==
    /\ pc = "done"
    /\ max_try = 2
    /\ Len(url_list) >= 2
    /\ Len(log) = 2
    /\ log[1] = [url |-> url_list[1], outcome |-> "Unavailable"]
    /\ log[2] = [url |-> url_list[2], outcome |-> "Available"]
    /\ result = url_list[2]

(***************************************************************************)
(* C2. When every probe of the call was Unavailable, the call has made     *)
(* exactly max_try * len(url_list) probes when it returns, and it returns  *)
(* None.                                                                   *)
(***************************************************************************)
C2_ExhaustsAllPasses ==
    (/\ pc = "done"
     /\ \A k \in DOMAIN log : log[k].outcome = "Unavailable")
    => /\ Len(log) = max_try * Len(url_list)
       /\ result = NoUrl

C2_Witness ==
    /\ pc = "done"
    /\ result = NoUrl
    /\ max_try = 2
    /\ Len(url_list) = 3
    /\ Len(log) = 6
    /\ \A k \in DOMAIN log : log[k].outcome = "Unavailable"

(***************************************************************************)
(* C3. As claimed: after a redirect that ends in success the URL returned  *)
(* is the final target of the redirects.                                   *)
(***************************************************************************)
C3_ReturnsFinalTarget ==
    (pc = "done" /\ result # NoUrl /\ depth > 0) => result = cur

\* C3, amended: after a redirect that ends in success the URL returned is
\* the candidate that was probed, an element of the candidate list
C3_ReturnsProbedCandidate ==
    (pc = "done" /\ result # NoUrl /\ depth > 0)
    => /\ result = log[Len(log)].url
       /\ result \in Candidates

\* a two-hop redirect ended in success at another URL than the candidate
C3_Witness ==
    /\ pc = "done"
    /\ depth = 2
    /\ resp.status_code = 200
    /\ cur \in RedirectTargets
    /\ result \in Candidates
    /\ result # cur

(***************************************************************************)
(* C4. With stable availability and max_try >= 1 the call returns an       *)
(* Available candidate such that every candidate of lower global latency   *)
(* is Unavailable, and it returns None only if every candidate is          *)
(* Unavailable.                                                            *)
(***************************************************************************)
C4_LowestLatencyAvailable ==
    (pc = "done" /\ max_try >= 1 /\ StableAvailability)
    => IF result = NoUrl
       THEN \A u \in Candidates : ProbedAs(u, "Unavailable")
       ELSE /\ result \in Candidates
            /\ ProbedAs(result, "Available")
            /\ \A u \in Candidates :
                  GlobalLatency[Netloc(u)] < GlobalLatency[Netloc(result)]
                  => ProbedAs(u, "Unavailable")

\* the call fell back past two unavailable mirrors of lower latency
C4_Witness ==
    /\ pc = "done"
    /\ StableAvailability
    /\ result # NoUrl
    /\ Len(url_list) = 3
    /\ result = url_list[3]
    /\ \A i \in 1..2 :
          /\ GlobalLatency[Netloc(url_list[i])] < GlobalLatency[Netloc(result)]
          /\ ProbedAs(url_list[i], "Unavailable")

(***************************************************************************)
(* C5. The call keeps the one candidate list get_urls gave it, and the     *)
(* URLs it probes are, in order, a prefix of that list repeated max_try    *)
(* times: probe k goes to candidate ((k-1) mod N) + 1.                     *)
(***************************************************************************)
C5_PassesInRankOrder ==
    Probing =>
        /\ call.op = "resolve"
        /\ url_list = call.urls
        /\ Len(log) <= max_try * Len(url_list)
        /\ \A k \in DOMAIN log :
              log[k].url = url_list[((k - 1) % Len(url_list)) + 1]

\* a second pass has begun over three distinct candidates
C5_Witness ==
    /\ pc = "head"
    /\ Len(url_list) = 3
    /\ Cardinality(Candidates) = 3
    /\ Len(log) = 5
    /\ log[4].url = url_list[1]
    /\ log[5].url = url_list[2]

(***************************************************************************)
(* C6. The list get_urls returns is no longer than the number of mirrors   *)
(* and is sorted ascending by the global latency of the hosts of its URLs; *)
(* a host whose latency probe failed (Infinity) is behind every host whose *)
(* probe succeeded.                                                        *)
(***************************************************************************)
C6_CandidatesSorted ==
    (call.op \in {"get_urls", "resolve"} /\ ~call.raised)
    => /\ Len(call.urls) <= Len(registry)
       /\ \A i, j \in DOMAIN call.urls :
             i < j =>
                /\ GlobalLatency[Netloc(call.urls[i])]
                      <= GlobalLatency[Netloc(call.urls[j])]
                /\ GlobalLatency[Netloc(call.urls[i])] = Infinity
                      => GlobalLatency[Netloc(call.urls[j])] = Infinity

\* the third mirror came first, a mirror whose probe failed came last
C6_Witness ==
    /\ call.op = "get_urls"
    /\ ~call.raised
    /\ Len(call.urls) = 3
    /\ Netloc(call.urls[1]) \in TemplateHosts(3)
    /\ GlobalLatency[Netloc(call.urls[1])] < GlobalLatency[Netloc(call.urls[2])]
    /\ GlobalLatency[Netloc(call.urls[2])] < GlobalLatency[Netloc(call.urls[3])]
    /\ GlobalLatency[Netloc(call.urls[3])] = Infinity

(***************************************************************************)
(* C7. As claimed: when the get_url of a mirror fails with a template      *)
(* error, get_urls skips that mirror, returns the URLs of the others and   *)
(* raises nothing.                                                         *)
(***************************************************************************)
C7_TemplateErrorSkipped ==
    (/\ call.op \in {"get_urls", "resolve"}
     /\ \E i \in DOMAIN registry : TemplateError(i, call.req))
    => /\ ~call.raised
       /\ Len(call.urls) =
             Cardinality({i \in DOMAIN registry : ~TemplateError(i, call.req)})

(***************************************************************************)
(* C8. As claimed: a probe is Available exactly when its last response is  *)
(* a 2xx response; a failed request, a 4xx status and every other status   *)
(* are Unavailable.                                                        *)
(***************************************************************************)
C8_AvailableOnlyOnSuccess ==
    \A k \in DOMAIN log :
        (k = Len(log) /\ log[k].outcome \in {"Available", "Unavailable"}
           /\ resp # NoResponse)
        => (log[k].outcome = "Available"
              <=> (resp.kind = "response" /\ resp.status_code \div 100 = 2))

(***************************************************************************)
(* C9. As claimed: no outcome of a probe makes query_download_url raise;   *)
(* it raises, if at all, before its first probe.                           *)
(***************************************************************************)
C9_ProbeNeverRaises ==
    pc = "raised" => log = <<>>

(***************************************************************************)
(* C10. As claimed: once get_url was called on a mirror, its cache has an  *)
(* entry for every host of its stable and latest templates (stated for the *)
(* mirrors that have templates of both kinds).                             *)
(***************************************************************************)
C10_CompleteOnceTouched ==
    \A i \in touched :
        (registry[i].urls # <<>> /\ registry[i].latest_urls # <<>>)
        => TemplateHosts(i) \subseteq DOMAIN lat[i]

\* C10, amended: once a get_url of a mirror has returned a URL, and once
\* its cache is not empty, the cache has an entry for every host of its
\* stable and latest templates, in every later state
C10_CompleteOncePopulated ==
    \A i \in DOMAIN registry :
        (i \in served \/ lat[i] # EmptyDict)
        => TemplateHosts(i) \subseteq DOMAIN lat[i]

\* a request for a stable version filled in the host of the latest template
C10_Witness ==
    /\ call.op = "get_url"
    /\ ~call.raised
    /\ call.req.version = "1.0"
    /\ call.mirror \in served
    /\ registry[call.mirror].latest_urls # <<>>
    /\ \E h \in DOMAIN lat[call.mirror] :
          /\ h = registry[call.mirror].latest_urls[1].netloc
          /\ \A k \in DOMAIN registry[call.mirror].urls :
                h # registry[call.mirror].urls[k].netloc

(***************************************************************************)
(* C11: the latencies of a mirror are populated at most once.  Over every  *)
(* sequence of get_url, get_urls, latencies and query_download_url calls   *)
(* the body of "if not self._latencies" runs at most once for a mirror,    *)
(* and once it has run, no step changes the mirror's cache or calls        *)
(* port_response_time for it again.                                        *)
(***************************************************************************)
C11_PopulatedOnce ==
    [][\A i \in DOMAIN registry :
          /\ pop'[i].runs <= 1
          /\ pop[i].runs >= 1 =>
                /\ lat'[i] = lat[i]
                /\ pop'[i] = pop[i]]_vars

\* a populated mirror whose latencies have been read again through the
\* registry
C11_Witness ==
    \E i \in DOMAIN registry :
        /\ i \in served
        /\ call.op = "registry.latencies"
        /\ pop[i].runs = 1
        /\ pop[i].probes > 0
        /\ lat[i] # EmptyDict

\* the templates the claims C12 and C13 speak of for the request of the
\* last get_url: the list for "latest", or the list for the other versions
ClaimedTemplates(src, version) ==
    IF version = "latest" THEN src.latest_urls ELSE src.urls
OtherTemplates(src, version) ==
    IF version = "latest" THEN src.urls ELSE src.latest_urls

\* template t generates url for the request rq
Generates(t, rq, url) ==
    LET configs == generate_info(rq.version, rq.system, rq.arch)
    IN  /\ ~SubstituteRaises(t, configs)
        /\ Substitute(t, configs) = url

(***************************************************************************)
(* C12: the version selects the template list.  A URL that get_url         *)
(* returns for the version "latest" is generated from a template of        *)
(* latest_urls and from none of urls; for every other version it is        *)
(* generated from a template of urls and from none of latest_urls,         *)
(* whatever the latencies of the hosts of the other list are.              *)
(***************************************************************************)
C12_VersionSelectsTemplates ==
    (call.op = "get_url" /\ ~call.raised) =>
        LET src == registry[call.mirror]
            mine == ClaimedTemplates(src, call.req.version)
            other == OtherTemplates(src, call.req.version)
        IN  /\ \E k \in DOMAIN mine : Generates(mine[k], call.req, call.urls[1])
            /\ \A k \in DOMAIN other :
                   ~Generates(other[k], call.req, call.urls[1])

\* "latest" was asked of a mirror one of whose stable hosts has a lower
\* latency than the host of the URL that was returned
C12_Witness ==
    /\ call.op = "get_url"
    /\ ~call.raised
    /\ call.req.version = "latest"
    /\ \E k \in DOMAIN registry[call.mirror].urls :
          LET h == registry[call.mirror].urls[k].netloc
          IN  /\ h \in DOMAIN lat[call.mirror]
              /\ lat[call.mirror][h] < lat[call.mirror][Netloc(call.urls[1])]

(***************************************************************************)
(* C13: get_url returns the URL of lowest latency of the selected list.    *)
(* The returned URL is generated from a template of the selected list      *)
(* whose host has, in the mirror's cache, a latency no larger than that of *)
(* any other URL of the list, and strictly smaller than that of every URL  *)
(* generated from a template listed before it (of equal latencies the      *)
(* first listed wins).                                                     *)
(***************************************************************************)
C13_LowestLatencyFirstListed ==
    (call.op = "get_url" /\ ~call.raised) =>
        LET src == registry[call.mirror]
            mine == ClaimedTemplates(src, call.req.version)
            configs == generate_info(call.req.version, call.req.system,
                                     call.req.arch)
            key(k) == lat[call.mirror][Netloc(Substitute(mine[k], configs))]
        IN  \E k \in DOMAIN mine :
                /\ Generates(mine[k], call.req, call.urls[1])
                /\ \A j \in DOMAIN mine : key(k) <= key(j)
                /\ \A j \in 1..(k - 1) : key(j) > key(k)

\* two templates of the selected list have hosts of equal, lowest latency
\* and the URL of the first listed was returned
C13_Witness ==
    /\ call.op = "get_url"
    /\ ~call.raised
    /\ LET src == registry[call.mirror]
           mine == ClaimedTemplates(src, call.req.version)
       IN  /\ Len(mine) >= 2
           /\ Generates(mine[1], call.req, call.urls[1])
           /\ mine[1].netloc # mine[2].netloc
           /\ lat[call.mirror][mine[1].netloc] = lat[call.mirror][mine[2].netloc]

\* the last HEAD request of the running probe was answered by a redirect:
\* a 3xx status with a Location header
RedirectAnswered ==
    /\ log # <<>>
    /\ resp.kind = "response"
    /\ resp.status_code \div 100 = 3
    /\ resp.location # NoUrl

(***************************************************************************)
(* C14: a redirect is never terminal.  When a HEAD request is answered by  *)
(* a 3xx status that carries a Location, is_url_available does not decide  *)
(* the probe by that response: it goes on with a HEAD request to the       *)
(* target, whose outcome becomes the outcome of the probe.                 *)
(***************************************************************************)
C14_RedirectNeverTerminal ==
    RedirectAnswered =>
        /\ log[Len(log)].outcome \notin {"Available", "Unavailable"}
        /\ pc = "head" => cur = resp.location

\* a lower bound of the number of HEAD requests query_download_url has
\* issued when a probe has just been decided: one at least for every
\* earlier probe, and one for every level of the probe that was decided
HeadRequestsAtLeast == (Len(log) - 1) + (depth + 1)

\* a probe has just been decided, by a return or by an exception
ProbeDecided ==
    /\ log # <<>>
    /\ resp # NoResponse
    /\ log[Len(log)].outcome # "pending"

CachedAddresses(i) == {query_ip(h) : h \in DOMAIN lat[i]}

(***************************************************************************)
(* C16: one latency probe for every distinct address.  Once a mirror has   *)
(* been populated, port_response_time has been called as many times as     *)
(* its hosts have distinct addresses, every host of the cache holds the    *)
(* latency that was measured for its address, and two hosts of the same    *)
(* address hold the same latency.                                          *)
(***************************************************************************)
C16_OneProbePerAddress ==
    \A i \in DOMAIN registry :
        pop[i].runs >= 1 =>
            /\ pop[i].probes = Cardinality(CachedAddresses(i))
            /\ DOMAIN pop[i].measured = CachedAddresses(i)
            /\ \A h \in DOMAIN lat[i] :
                   lat[i][h] = pop[i].measured[query_ip(h)]
            /\ \A h1, h2 \in DOMAIN lat[i] :
                   query_ip(h1) = query_ip(h2) => lat[i][h1] = lat[i][h2]

\* a populated mirror with two hosts of one address and a third host whose
\* address was measured differently
C16_Witness ==
    \E i \in DOMAIN registry :
        /\ pop[i].runs = 1
        /\ \E h1, h2, h3 \in DOMAIN lat[i] :
              /\ h1 # h2
              /\ query_ip(h1) = query_ip(h2)
              /\ query_ip(h3) # query_ip(h1)
              /\ lat[i][h3] # lat[i][h1]
        /\ pop[i].probes < Cardinality(DOMAIN lat[i])

(***************************************************************************)
(* C17: mirrors that share a host agree on its latency.  Whenever two      *)
(* mirrors hold a host in their caches, both caches hold the same value    *)
(* for it and so does the merged view of the registry, so that the         *)
(* latency a mirror ranked its own URLs by is the latency the registry     *)
(* ranks that URL by.                                                      *)
(***************************************************************************)
C17_SharedHostAgrees ==
    \A i, j \in DOMAIN registry :
        \A h \in DOMAIN lat[i] \cap DOMAIN lat[j] :
            /\ lat[i][h] = lat[j][h]
            /\ GlobalLatency[h] = lat[i][h]

(***************************************************************************)
(* C18: concurrent first readers populate once.  Under every interleaving  *)
(* of threads that read the property latencies of a mirror, the body of    *)
(* "if not self._latencies" is completed, and self._latencies assigned,    *)
(* at most once for the mirror, and no address of the mirror is probed a   *)
(* second time.                                                            *)
(***************************************************************************)
C18_ConcurrentPopulatedOnce ==
    \A i \in DOMAIN registry :
        /\ pop[i].runs <= 1
        /\ pop[i].probes <= Cardinality({query_ip(h) : h \in TemplateHosts(i)})

(***************************************************************************)
(* C19: every latency lookup of the ranking succeeds.  The host of a       *)
(* generated URL is a key of the mirror's cache when get_url sorts, and of *)
(* the merged latencies when get_urls sorts, also when the template has a  *)
(* placeholder in its host: no get_url, get_urls or query_download_url     *)
(* raises the KeyError of a failed lookup.                                 *)
(***************************************************************************)
C19_LookupSucceeds ==
    call.op \in {"get_url", "get_urls", "resolve"} =>
        /\ call.exc # "KeyError: host"
        /\ \A k \in DOMAIN call.urls :
               \E i \in DOMAIN registry : Netloc(call.urls[k]) \in DOMAIN lat[i]

\* the selected template list of mirror i is empty for the request rq
NothingSelected(i, rq) == ClaimedTemplates(registry[i], rq.version) = <<>>

(***************************************************************************)
(* C20: a mirror with an empty selected template list does not block the   *)
(* others.  When get_urls or query_download_url is called with a request   *)
(* for which some mirror has no template, the call does not raise, and     *)
(* its list holds a URL of every mirror that has a template for the        *)
(* request.                                                                *)
(***************************************************************************)
C20_EmptySelectionSkipped ==
    (/\ call.op \in {"get_urls", "resolve"}
     /\ \E i \in DOMAIN registry : NothingSelected(i, call.req)) =>
        /\ ~call.raised
        /\ \A j \in DOMAIN registry :
               ~NothingSelected(j, call.req) =>
                   \E k \in DOMAIN call.urls :
                       \E m \in DOMAIN ClaimedTemplates(registry[j],
                                                        call.req.version) :
                           Generates(ClaimedTemplates(registry[j],
                                         call.req.version)[m],
                                     call.req, call.urls[k])

=============================================================================
